---------------------------- MODULE Spec2Model ----------------------------
(***************************************************************************)
(* Bulk-dispatch engine of the WhatsApp bulk messenger                     *)
(* (src/whatsapp_api.py): the fixed-window rate limiter, send_message with *)
(* its retry-by-recursion, and send_bulk_messages with result aggregation  *)
(* and the progress callback.                                              *)
(*                                                                         *)
(* Time is the value of time.time() in whole seconds, counted from the     *)
(* construction of the WhatsAppAPI object.  A contact is the set of keys   *)
(* of its dict; a template is the sequence of its {placeholder} names.     *)
(* Inside results["failures"] a contact is named by its position in the    *)
(* input list (Python stores a reference to the very dict of the input).   *)
(***************************************************************************)
EXTENDS Integers, Sequences, FiniteSets, TLC

(* ----------------------------- configuration --------------------------- *)

\* config.py: MAX_RETRIES, RETRY_DELAY
MAX_RETRIES == 3
RETRY_DELAY == 5
\* config.py sets RATE_LIMIT = 20 ("adjust according to your ... limits");
\* the model runs the limiter with a small cap so that the cap is reached
\* by a short contact list.
RATE_LIMIT == 2
\* whatsapp_api.py: the literal 60 of _check_rate_limit, the literal 1 of
\* _wait_for_rate_limit
WINDOW == 60
POLL_DELAY == 1

(* -------------------------------- bounds ------------------------------- *)

MaxContacts == 3
MaxTime == 64
\* contacts of the two dispatches that share one WhatsAppAPI object
MaxFirst == 3
MaxSecond == 1
\* a phone number is a free prefix, a run of one digit and a free suffix
MaxPrefix == 3
MaxRun == 16
MaxSuffix == 1

(* -------------------------------- inputs ------------------------------- *)

\* the key sets of the contact dicts handed to send_bulk_messages
ContactKinds == {{"phone_number", "name"}, {"phone_number"}, {"name"}}
\* "Hi {name}"
Templates == {<<"name">>}
\* requests.post: an HTTP status code, or a raised RequestException
Statuses == {200, 201, 500}
\* no HTTP status: requests.post raised a RequestException
NetErr == 0
Outcomes == Statuses \cup {NetErr}
\* seconds a requests.post call takes
Durations == {1}

ListsUpTo(m) == UNION {[1..n -> ContactKinds] : n \in 0..m}
ContactLists == ListsUpTo(MaxContacts)

VARIABLES
    clock,            \* time.time()
    message_count,    \* self.message_count
    last_reset_time,  \* self.last_reset_time
    pc,               \* position of the worker inside send_bulk_messages
    contacts,         \* argument contacts
    template,         \* argument message_template
    hasCallback,      \* argument callback is truthy
    index,            \* loop variable of send_bulk_messages, 1-based
    retry_count,      \* argument retry_count of the running send_message
    resp,             \* value returned by send_message
    results,          \* the results dict
    hist,             \* outcomes of the requests.post calls made for contacts[index]
    outcomes,         \* terminal state reached by each contact processed so far
    progressLog,      \* the progress values handed to the callback, in call order
    sendTimes,        \* times of the latest RATE_LIMIT + 1 successful sends
    grants,           \* checks that returned True since the window started
    \* a second send_bulk_messages call running on the same object
    pc2, contacts2, template2, hasCallback2, index2, retry_count2, resp2,
    results2,
    \* the latest call of a phone-number helper: which one, its argument
    \* and what it returned
    phoneCall

vars == <<clock, message_count, last_reset_time, pc, contacts, template,
          hasCallback, index, retry_count, resp, results, hist, outcomes,
          progressLog, sendTimes, grants, pc2, contacts2, template2,
          hasCallback2, index2, retry_count2, resp2, results2, phoneCall>>

\* the locals of the second call
w2vars == <<pc2, contacts2, template2, hasCallback2, index2, retry_count2,
            resp2, results2>>
\* the locals of the first call
w1vars == <<pc, contacts, template, hasCallback, index, retry_count, resp,
            results, hist, outcomes, progressLog>>

limiterVars == <<message_count, last_reset_time>>
argVars == <<contacts, template, hasCallback>>

(* ------------------------------- helpers ------------------------------- *)

Last(s) == s[Len(s)]

\* 200 <= status < 300
Is2xx(o) == o >= 200 /\ o < 300

\* a test that takes every 2xx status for a success
IsFailureUnless2xx(o) == ~Is2xx(o)

\* send_message treats an attempt as failed unless the status is 200
\* (line 111); a raised RequestException is a failure too (line 125)
IsFailure(o) == o # 200

\* the values under "error": what kind of error, the HTTP status it names
\* (0 when it names none) and the key it names ("" when it names none)
Error(kind, code, key) == [kind |-> kind, code |-> code, key |-> key]
\* a response of send_message without the key "error"
NoError == Error("none", 0, "")

\* error_msg of send_message for a failed attempt (lines 116 and 126)
ErrorOf(o) ==
    IF o = NetErr THEN Error("Network error", 0, "") ELSE Error("Status", o, "")

\* str.format(**contact): the first placeholder that is no key of the
\* contact raises KeyError(that name); "" when the template renders
RECURSIVE FirstMissing(_, _)
FirstMissing(t, c) ==
    IF t = <<>> THEN ""
    ELSE IF t[1] \notin c THEN t[1]
    ELSE FirstMissing(Tail(t), c)

\* the exception raised by lines 164-168 (format, then contact['phone_number'])
\* before send_message is entered; NoError when none is raised
RenderError(t, c) ==
    IF FirstMissing(t, c) # "" THEN Error("KeyError", 0, FirstMissing(t, c))
    ELSE IF "phone_number" \notin c THEN Error("KeyError", 0, "phone_number")
    ELSE NoError

\* progress = (index + 1) / len(contacts) * 100, kept as the exact fraction
\* <<numerator, denominator>>; index here is 1-based
Progress(i, n) == <<100 * i, n>>

\* keep the latest RATE_LIMIT + 1 send times
Remember(ts, t) ==
    IF Len(ts) <= RATE_LIMIT THEN Append(ts, t) ELSE Append(Tail(ts), t)

\* an except-clause that counts the failure without listing it
ExceptClauseUnlisted(r, i, e) == [r EXCEPT !.failed = @ + 1]

\* the except-clause of send_bulk_messages (lines 188-194)
ExceptClause(r, i, e) ==
    [r EXCEPT !.failed = @ + 1,
              !.failures = Append(@, [contact |-> i, error |-> e])]

\* an except-clause that leaves the loop
AfterExceptionAbort(i) == [pc |-> "done", index |-> i]

\* an except-clause after which the same contact is processed again
AfterExceptionAgain(i) == [pc |-> "loop", index |-> i]

\* where the loop goes after an exception was handled
AfterException(i) == [pc |-> "loop", index |-> i + 1]

\* a retry test that is off by one
MayRetryOnceLess(rc) == rc < MAX_RETRIES - 1
\* a retry test that allows a single retry
MayRetryOnce(rc) == rc < 1

\* a retry count that only HTTP-status failures advance
NextRetryCountStatusOnly(rc, o) == IF o = NetErr THEN rc ELSE rc + 1

\* the retry_count handed to the retry, after a status failure (line 120)
\* and after a RequestException (line 130) alike
NextRetryCount(rc, o) == rc + 1

\* a retry that goes straight to the request
RetryEntrySkipsLimiter == "post"

\* where a retry resumes: send_message calls itself (lines 120 and 130) and
\* so starts again at _wait_for_rate_limit (line 81)
RetryEntry == "wait"

\* the retry test of send_message (lines 117 and 127)
MayRetry(rc) == rc < MAX_RETRIES

\* a limit test that lets one send too many through
WithinLimitInclusive(count) == count <= RATE_LIMIT

\* a limit test that never refuses
WithinLimitNever(count) == count >= 0

\* a count that every attempt advances
CountAfterEveryAttempt(count, o) == count + 1

\* self.message_count after an attempt: incremented once the status was
\* found to be 200 (lines 111-112), left alone by a failed attempt
CountAfter(count, o) == IF ~IsFailure(o) THEN count + 1 ELSE count

\* the test of _check_rate_limit once the window was looked at (line 52)
WithinLimit(count) == count < RATE_LIMIT

\* a window that never elapses
WindowElapsedNever(now, start) == FALSE

\* the window test of _check_rate_limit (line 48)
WindowElapsed(now, start) == now - start >= WINDOW

(* --------------------------------- Init -------------------------------- *)

\* WhatsAppAPI() (lines 28-38), no call of send_bulk_messages made yet
InitEngine ==
    /\ clock = 0
    /\ message_count = 0
    /\ last_reset_time = 0
    /\ pc = "idle"
    /\ contacts = <<>>
    /\ template = <<>>
    /\ hasCallback = FALSE
    /\ index = 1
    /\ retry_count = 0
    /\ resp = NoError
    /\ results = [total |-> 0, successful |-> 0, failed |-> 0, failures |-> <<>>]
    /\ hist = <<>>
    /\ outcomes = <<>>
    /\ progressLog = <<>>
    /\ sendTimes = <<>>
    /\ grants = 0
    /\ pc2 = "idle"
    /\ contacts2 = <<>>
    /\ template2 = <<>>
    /\ hasCallback2 = FALSE
    /\ index2 = 1
    /\ retry_count2 = 0
    /\ resp2 = NoError
    /\ results2 = [total |-> 0, successful |-> 0, failed |-> 0,
                   failures |-> <<>>]

NoPhoneCall(p) == [fn |-> "none", arg |-> p, ret |-> <<>>]

Init ==
    /\ InitEngine
    /\ phoneCall = NoPhoneCall(<<>>)

(* ------------------------------- actions ------------------------------- *)

\* send_bulk_messages is called (lines 135-159)
Call(lists, callbacks) ==
    /\ pc = "idle"
    /\ \E cs \in lists, t \in Templates, cb \in callbacks :
          /\ contacts' = cs
          /\ template' = t
          /\ hasCallback' = cb
          /\ results' = [total |-> Len(cs), successful |-> 0, failed |-> 0,
                         failures |-> <<>>]
    /\ index' = 1
    /\ pc' = "loop"
    /\ UNCHANGED <<phoneCall, w2vars, grants, clock, limiterVars, retry_count, resp, hist, outcomes,
                   progressLog, sendTimes>>

SendBulkMessages == Call(ContactLists, BOOLEAN)

\* a loop body that acquires the limiter first and renders once it was
\* granted
RenderAfterAcquire ==
    /\ pc = "loop"
    /\ index <= Len(contacts)
    /\ LET reset == WindowElapsed(clock, last_reset_time)
           count == IF reset THEN 0 ELSE message_count
           e == RenderError(template, contacts[index])
       IN  /\ message_count' = count
           /\ last_reset_time' = IF reset THEN clock ELSE last_reset_time
           /\ IF ~WithinLimit(count)
              THEN /\ clock + POLL_DELAY <= MaxTime
                   /\ clock' = clock + POLL_DELAY
                   /\ grants' = IF reset THEN 0 ELSE grants
                   /\ UNCHANGED <<pc, index, results, outcomes, retry_count, hist>>
              ELSE /\ grants' = (IF reset THEN 0 ELSE grants) + 1
                   /\ hist' = <<>>
                   /\ UNCHANGED clock
                   /\ IF e # NoError
                      THEN /\ results' = ExceptClause(results, index, e)
                           /\ outcomes' = Append(outcomes, "RenderFailed")
                           /\ pc' = AfterException(index).pc
                           /\ index' = AfterException(index).index
                           /\ UNCHANGED retry_count
                      ELSE /\ retry_count' = 0
                           /\ pc' = "post"
                           /\ UNCHANGED <<results, outcomes, index>>
    /\ UNCHANGED <<phoneCall, w2vars, argVars, resp, progressLog, sendTimes>>

\* one pass of lines 161-171: render the template and read the phone
\* number; a KeyError goes to the except-clause, otherwise send_message is
\* entered with retry_count = 0
Render ==
    /\ pc = "loop"
    /\ index <= Len(contacts)
    /\ hist' = <<>>
    /\ LET e == RenderError(template, contacts[index]) IN
         IF e # NoError
         THEN /\ results' = ExceptClause(results, index, e)
              /\ outcomes' = Append(outcomes, "RenderFailed")
              /\ pc' = AfterException(index).pc
              /\ index' = AfterException(index).index
              /\ UNCHANGED retry_count
         ELSE /\ retry_count' = 0
              /\ pc' = "wait"
              /\ UNCHANGED <<results, outcomes, index>>
    /\ UNCHANGED <<phoneCall, w2vars, grants, clock, limiterVars, argVars, resp, progressLog, sendTimes>>

\* one iteration of _wait_for_rate_limit (lines 57-60) with the
\* _check_rate_limit it calls (lines 40-55)
WaitForRateLimitUntil(T) ==
    /\ pc = "wait"
    /\ LET reset == WindowElapsed(clock, last_reset_time)
           count == IF reset THEN 0 ELSE message_count
       IN  /\ message_count' = count
           /\ last_reset_time' = IF reset THEN clock ELSE last_reset_time
           /\ IF WithinLimit(count)
              THEN /\ pc' = "post"
                   /\ grants' = (IF reset THEN 0 ELSE grants) + 1
                   /\ UNCHANGED clock
              ELSE /\ clock + POLL_DELAY <= T
                   /\ clock' = clock + POLL_DELAY
                   /\ grants' = IF reset THEN 0 ELSE grants
                   /\ UNCHANGED pc
    /\ UNCHANGED <<phoneCall, w2vars, argVars, index, retry_count, resp, results, hist, outcomes,
                   progressLog, sendTimes>>

\* the wait, as long as the clock of the model lasts
WaitForRateLimit == WaitForRateLimitUntil(MaxTime)

\* requests.post and what send_message does with its result (lines 83-133)
PostUntil(T) ==
    /\ pc = "post"
    /\ \E o \in Outcomes, d \in Durations :
          /\ clock + d <= T
          /\ hist' = Append(hist, o)
          /\ IF ~IsFailure(o)
             THEN /\ message_count' = CountAfter(message_count, o)
                  /\ sendTimes' = Remember(sendTimes, clock + d)
                  /\ resp' = NoError
                  /\ pc' = "record"
                  /\ clock' = clock + d
                  /\ UNCHANGED retry_count
             ELSE IF MayRetry(retry_count)
             THEN /\ clock + d + RETRY_DELAY <= T
                  /\ clock' = clock + d + RETRY_DELAY
                  /\ retry_count' = NextRetryCount(retry_count, o)
                  /\ pc' = RetryEntry
                  /\ message_count' = CountAfter(message_count, o)
                  /\ UNCHANGED <<sendTimes, resp>>
             ELSE /\ resp' = ErrorOf(o)
                  /\ pc' = "record"
                  /\ clock' = clock + d
                  /\ message_count' = CountAfter(message_count, o)
                  /\ UNCHANGED <<sendTimes, retry_count>>
    /\ UNCHANGED <<phoneCall, w2vars, grants, last_reset_time, argVars, index, results, outcomes,
                   progressLog>>

\* the request, as long as the clock of the model lasts
Post == PostUntil(MaxTime)

\* lines 173-181: count the response of send_message
UpdateResults ==
    /\ pc = "record"
    /\ IF resp = NoError
       THEN /\ results' = [results EXCEPT !.successful = @ + 1]
            /\ outcomes' = Append(outcomes, "Success")
       ELSE /\ results' = [results EXCEPT
                             !.failed = @ + 1,
                             !.failures = Append(@, [contact |-> index,
                                                     error |-> resp])]
            /\ outcomes' = Append(outcomes, "PermanentFailure")
    /\ pc' = "progress"
    /\ UNCHANGED <<phoneCall, w2vars, grants, clock, limiterVars, argVars, index, retry_count, resp, hist,
                   progressLog, sendTimes>>

\* lines 183-186: the progress callback, which returns or raises; what it
\* raises is caught by the except-clause of the same try (lines 188-194)
ProgressCallback ==
    /\ pc = "progress"
    /\ IF hasCallback
       THEN /\ progressLog' = Append(progressLog, Progress(index, Len(contacts)))
            /\ \E raises \in BOOLEAN :
                 IF raises
                 THEN /\ results' = ExceptClause(results, index, Error("CallbackError", 0, ""))
                      /\ pc' = AfterException(index).pc
                      /\ index' = AfterException(index).index
                 ELSE /\ pc' = "loop"
                      /\ index' = index + 1
                      /\ UNCHANGED results
       ELSE /\ pc' = "loop"
            /\ index' = index + 1
            /\ UNCHANGED <<results, progressLog>>
    /\ UNCHANGED <<phoneCall, w2vars, grants, clock, limiterVars, argVars, retry_count, resp, hist,
                   outcomes, sendTimes>>

\* a return that first reports 100 percent to the callback
ReturnWithFinalProgress ==
    /\ pc = "loop"
    /\ index > Len(contacts)
    /\ pc' = "done"
    /\ progressLog' = IF hasCallback THEN Append(progressLog, <<100, 1>>)
                                     ELSE progressLog
    /\ UNCHANGED <<phoneCall, w2vars, grants, clock, limiterVars, argVars, index, retry_count, resp,
                   results, hist, outcomes, sendTimes>>

\* the loop is exhausted: lines 196-199
Return ==
    /\ pc = "loop"
    /\ index > Len(contacts)
    /\ pc' = "done"
    /\ UNCHANGED <<phoneCall, w2vars, grants, clock, limiterVars, argVars, index, retry_count, resp,
                   results, hist, outcomes, progressLog, sendTimes>>

Next ==
    \/ SendBulkMessages
    \/ Render
    \/ WaitForRateLimit
    \/ Post
    \/ UpdateResults
    \/ ProgressCallback
    \/ Return

Spec == Init /\ [][Next]_vars

(* ------------------------------ termination ---------------------------- *)
(* The same call with a clock that lasts long enough for the longest run   *)
(* of a list of MaxContacts contacts, and a worker thread that keeps       *)
(* running: time.sleep and requests.post return, so the step the thread    *)
(* stands at is taken eventually.                                          *)

\* the last second of the clock
LiveTime == 86

WaitForRateLimitLive == WaitForRateLimitUntil(LiveTime)
PostLive == PostUntil(LiveTime)

\* the steps of the thread that runs send_bulk_messages
Worker ==
    \/ Render
    \/ WaitForRateLimitLive
    \/ PostLive
    \/ UpdateResults
    \/ ProgressCallback
    \/ Return

NextLive ==
    \/ SendBulkMessages
    \/ Worker

SpecLive == Init /\ [][NextLive]_vars /\ WF_vars(Worker)

(* ------------------- two calls sharing one WhatsAppAPI ------------------ *)
(* A second thread runs send_bulk_messages on the same object.  It runs   *)
(* the same code on locals of its own; message_count, last_reset_time and *)
(* the clock are shared.  A thread runs each step below without being     *)
(* interrupted, which is one of the schedules the interpreter allows.     *)

\* the contact lists of the two calls: contacts that render, which are the
\* ones that reach the limiter
SendableKinds ==
    {c \in ContactKinds : \A t \in Templates : RenderError(t, c) = NoError}
SendableLists(m) == UNION {[1..n -> SendableKinds] : n \in 0..m}

\* the first call, with a list of at most MaxFirst contacts and, like the
\* second, without a callback
SendBulkMessagesFirst == Call(SendableLists(MaxFirst), {FALSE})

\* the second call (lines 135-159), made while the first one is running
SendBulkMessagesSecond ==
    /\ pc2 = "idle"
    /\ pc \notin {"idle", "done"}
    /\ \E cs \in SendableLists(MaxSecond), t \in Templates, cb \in {FALSE} :
          /\ contacts2' = cs
          /\ template2' = t
          /\ hasCallback2' = cb
          /\ results2' = [total |-> Len(cs), successful |-> 0, failed |-> 0,
                          failures |-> <<>>]
    /\ index2' = 1
    /\ pc2' = "loop"
    /\ UNCHANGED <<phoneCall, w1vars, clock, limiterVars, sendTimes, grants,
                   retry_count2, resp2>>

\* lines 161-171 in the second call
Render2 ==
    /\ pc2 = "loop"
    /\ index2 <= Len(contacts2)
    /\ LET e == RenderError(template2, contacts2[index2]) IN
         IF e # NoError
         THEN /\ results2' = ExceptClause(results2, index2, e)
              /\ pc2' = AfterException(index2).pc
              /\ index2' = AfterException(index2).index
              /\ UNCHANGED retry_count2
         ELSE /\ retry_count2' = 0
              /\ pc2' = "wait"
              /\ UNCHANGED <<results2, index2>>
    /\ UNCHANGED <<phoneCall, w1vars, clock, limiterVars, sendTimes, grants, contacts2,
                   template2, hasCallback2, resp2>>

\* lines 40-60 in the second call
WaitForRateLimit2 ==
    /\ pc2 = "wait"
    /\ LET reset == WindowElapsed(clock, last_reset_time)
           count == IF reset THEN 0 ELSE message_count
       IN  /\ message_count' = count
           /\ last_reset_time' = IF reset THEN clock ELSE last_reset_time
           /\ IF WithinLimit(count)
              THEN /\ pc2' = "post"
                   /\ grants' = (IF reset THEN 0 ELSE grants) + 1
                   /\ UNCHANGED clock
              ELSE /\ clock + POLL_DELAY <= MaxTime
                   /\ clock' = clock + POLL_DELAY
                   /\ grants' = IF reset THEN 0 ELSE grants
                   /\ UNCHANGED pc2
    /\ UNCHANGED <<phoneCall, w1vars, sendTimes, contacts2, template2, hasCallback2,
                   index2, retry_count2, resp2, results2>>

\* lines 83-133 in the second call
Post2 ==
    /\ pc2 = "post"
    /\ \E o \in Outcomes, d \in Durations :
          /\ clock + d <= MaxTime
          /\ IF ~IsFailure(o)
             THEN /\ message_count' = CountAfter(message_count, o)
                  /\ sendTimes' = Remember(sendTimes, clock + d)
                  /\ resp2' = NoError
                  /\ pc2' = "record"
                  /\ clock' = clock + d
                  /\ UNCHANGED retry_count2
             ELSE IF MayRetry(retry_count2)
             THEN /\ clock + d + RETRY_DELAY <= MaxTime
                  /\ clock' = clock + d + RETRY_DELAY
                  /\ retry_count2' = NextRetryCount(retry_count2, o)
                  /\ pc2' = RetryEntry
                  /\ message_count' = CountAfter(message_count, o)
                  /\ UNCHANGED <<sendTimes, resp2>>
             ELSE /\ resp2' = ErrorOf(o)
                  /\ pc2' = "record"
                  /\ clock' = clock + d
                  /\ message_count' = CountAfter(message_count, o)
                  /\ UNCHANGED <<sendTimes, retry_count2>>
    /\ UNCHANGED <<phoneCall, w1vars, last_reset_time, grants, contacts2, template2,
                   hasCallback2, index2, results2>>

\* lines 173-181 in the second call
UpdateResults2 ==
    /\ pc2 = "record"
    /\ results2' =
          IF resp2 = NoError
          THEN [results2 EXCEPT !.successful = @ + 1]
          ELSE [results2 EXCEPT
                  !.failed = @ + 1,
                  !.failures = Append(@, [contact |-> index2, error |-> resp2])]
    /\ pc2' = "progress"
    /\ UNCHANGED <<phoneCall, w1vars, clock, limiterVars, sendTimes, grants, contacts2,
                   template2, hasCallback2, index2, retry_count2, resp2>>

\* lines 183-194 in the second call
ProgressCallback2 ==
    /\ pc2 = "progress"
    /\ \E raises \in BOOLEAN :
         IF hasCallback2 /\ raises
         THEN /\ results2' = ExceptClause(results2, index2,
                                          Error("CallbackError", 0, ""))
              /\ pc2' = AfterException(index2).pc
              /\ index2' = AfterException(index2).index
         ELSE /\ pc2' = "loop"
              /\ index2' = index2 + 1
              /\ UNCHANGED results2
    /\ UNCHANGED <<phoneCall, w1vars, clock, limiterVars, sendTimes, grants, contacts2,
                   template2, hasCallback2, retry_count2, resp2>>

\* lines 196-199 in the second call
Return2 ==
    /\ pc2 = "loop"
    /\ index2 > Len(contacts2)
    /\ pc2' = "done"
    /\ UNCHANGED <<phoneCall, w1vars, clock, limiterVars, sendTimes, grants, contacts2,
                   template2, hasCallback2, index2, retry_count2, resp2,
                   results2>>

NextTwo ==
    \/ SendBulkMessagesFirst
    \/ Render
    \/ WaitForRateLimit
    \/ Post
    \/ UpdateResults
    \/ ProgressCallback
    \/ Return
    \/ SendBulkMessagesSecond
    \/ Render2
    \/ WaitForRateLimit2
    \/ Post2
    \/ UpdateResults2
    \/ ProgressCallback2
    \/ Return2

SpecTwo == Init /\ [][NextTwo]_vars

(* ---------------------------------- GUI --------------------------------- *)
(* MainWindow owns one WhatsAppAPI object (gui.py line 54).  A click on    *)
(* "Send Messages" runs send_messages, which starts a SendMessagesWorker   *)
(* thread; the thread runs send_bulk_messages on that object with          *)
(* progress.emit as the callback.  The model has room for two threads.     *)

\* rows of the contact table at the time of a click
MaxLoaded == 1

\* the thread is inside send_bulk_messages
Running(p) == p \notin {"idle", "done"}

\* MainWindow.send_messages (gui.py lines 297-327): a warning and nothing
\* else when no contacts are loaded or the message is blank; otherwise a
\* new SendMessagesWorker is created on self.api and started
send_messages ==
    \E cs \in ListsUpTo(MaxLoaded), blank \in BOOLEAN, t \in Templates :
        IF cs = <<>> \/ blank
        THEN UNCHANGED vars
        ELSE \/ /\ pc = "idle"
                /\ contacts' = cs
                /\ template' = t
                /\ hasCallback' = TRUE
                /\ results' = [total |-> Len(cs), successful |-> 0,
                               failed |-> 0, failures |-> <<>>]
                /\ index' = 1
                /\ pc' = "loop"
                /\ UNCHANGED <<phoneCall, w2vars, grants, clock, limiterVars,
                               retry_count, resp, hist, outcomes, progressLog,
                               sendTimes>>
             \/ /\ pc # "idle"
                /\ pc2 = "idle"
                /\ contacts2' = cs
                /\ template2' = t
                /\ hasCallback2' = TRUE
                /\ results2' = [total |-> Len(cs), successful |-> 0,
                                failed |-> 0, failures |-> <<>>]
                /\ index2' = 1
                /\ pc2' = "loop"
                /\ UNCHANGED <<phoneCall, w1vars, clock, limiterVars, sendTimes,
                               grants, retry_count2, resp2>>

NextGui ==
    \/ send_messages
    \/ Render
    \/ WaitForRateLimit
    \/ Post
    \/ UpdateResults
    \/ ProgressCallback
    \/ Return
    \/ Render2
    \/ WaitForRateLimit2
    \/ Post2
    \/ UpdateResults2
    \/ ProgressCallback2
    \/ Return2

SpecGui == Init /\ [][NextGui]_vars

(* -------------------------- phone number helpers ----------------------- *)
(* A string is the sequence of its characters.                            *)

\* U+00B2, one of the characters outside 0-9 for which str.isdigit() is True
SuperscriptTwo == "^2"
AsciiDigits == {"0", "1", "2", "3", "4", "5", "6", "7", "8", "9"}
\* str.isdigit for a single character
IsDigit(ch) == ch \in AsciiDigits \cup {SuperscriptTwo}

\* the bounds of validate_phone_number (line 215)
MIN_DIGITS == 10
MAX_DIGITS == 15

PhoneChars == {"1", "2", SuperscriptTwo, "+", "-"}
StringsUpTo(m) == UNION {[1..n -> PhoneChars] : n \in 0..m}
PhoneNumbers ==
    {pre \o [k \in 1..n |-> "7"] \o suf :
        pre \in StringsUpTo(MaxPrefix), n \in 0..MaxRun,
        suf \in StringsUpTo(MaxSuffix)}

\* a filter that lets the plus sign through as well
CleanedKeepingPlus(p) == SelectSeq(p, LAMBDA ch : IsDigit(ch) \/ ch = "+")

\* ''.join(filter(str.isdigit, phone_number)) (lines 212 and 230)
RECURSIVE Cleaned(_)
Cleaned(p) ==
    IF p = <<>> THEN <<>>
    ELSE IF IsDigit(p[1]) THEN <<p[1]>> \o Cleaned(Tail(p))
    ELSE Cleaned(Tail(p))

\* str.startswith for a one-character prefix
StartsWith(s, ch) == Len(s) >= 1 /\ s[1] = ch

\* a length test that rejects the shortest valid number
TooShortOrLongOffByOne(n) == n <= MIN_DIGITS \/ n > MAX_DIGITS

\* the length test of validate_phone_number (line 215)
TooShortOrLong(n) == n < MIN_DIGITS \/ n > MAX_DIGITS

\* validate_phone_number (lines 201-217)
validate_phone_number(p) ==
    LET cleaned_number == Cleaned(p) IN
    IF TooShortOrLong(Len(cleaned_number)) THEN FALSE ELSE TRUE

\* format_phone_number (lines 219-236)
format_phone_number(p) ==
    LET cleaned_number == Cleaned(p) IN
    IF ~StartsWith(cleaned_number, "+") THEN <<"+">> \o cleaned_number
    ELSE cleaned_number

engineVars == <<clock, limiterVars, sendTimes, grants, w1vars, w2vars>>

\* a helper is about to be called with one of the phone numbers
InitPhone ==
    /\ InitEngine
    /\ \E p \in PhoneNumbers : phoneCall = NoPhoneCall(p)

ValidatePhoneNumber ==
    /\ phoneCall.fn = "none"
    /\ phoneCall' = [fn |-> "validate", arg |-> phoneCall.arg,
                     ret |-> validate_phone_number(phoneCall.arg)]
    /\ UNCHANGED engineVars

FormatPhoneNumber ==
    /\ phoneCall.fn = "none"
    /\ phoneCall' = [fn |-> "format", arg |-> phoneCall.arg,
                     ret |-> format_phone_number(phoneCall.arg)]
    /\ UNCHANGED engineVars

NextPhone ==
    \/ ValidatePhoneNumber
    \/ FormatPhoneNumber

SpecPhone == InitPhone /\ [][NextPhone]_vars

TypeOK ==
    /\ clock \in 0..MaxTime
    /\ message_count \in Nat
    /\ pc \in {"idle", "loop", "wait", "post", "record", "progress", "done"}
    /\ index \in 1..(Len(contacts) + 1)
    /\ retry_count \in 0..MAX_RETRIES

(* ------------------------------ properties ----------------------------- *)

AllFailed(h) == h # <<>> /\ \A k \in 1..Len(h) : IsFailure(h[k])

\* positions of the contacts processed so far that did not end in Success
FailedContacts == {k \in 1..Len(outcomes) : outcomes[k] # "Success"}
SucceededContacts == {k \in 1..Len(outcomes) : outcomes[k] = "Success"}

\* positions named by the entries of results["failures"]
ListedContacts == {results.failures[k].contact : k \in 1..Len(results.failures)}

\* C1: when send_bulk_messages returns, successful + failed = total = the
\* number of input contacts.
C1_SumIsTotal ==
    pc = "done" =>
        /\ results.successful + results.failed = results.total
        /\ results.total = Len(contacts)

\* C2 as stated: a contact whose every attempt fails gets exactly
\* MAX_RETRIES transport calls and is then recorded as failed with the error
\* of the last attempt.
C2_MaxRetriesCalls ==
    (pc \in {"record", "progress"} /\ AllFailed(hist)) =>
        /\ Len(hist) = MAX_RETRIES
        /\ pc = "progress" =>
              Last(results.failures) =
                  [contact |-> index, error |-> ErrorOf(Last(hist))]

\* C2 amended: a contact whose every attempt fails gets exactly
\* MAX_RETRIES + 1 transport calls (the first attempt and MAX_RETRIES
\* retries), never more, and is then recorded as failed with the error of
\* the last attempt.
C2_MaxRetriesPlusOneCalls ==
    /\ Len(hist) <= MAX_RETRIES + 1
    /\ (pc \in {"record", "progress"} /\ AllFailed(hist)) =>
          /\ Len(hist) = MAX_RETRIES + 1
          /\ resp = ErrorOf(Last(hist))
          /\ pc = "progress" =>
                /\ outcomes[index] = "PermanentFailure"
                /\ results.failed >= 1
                /\ Last(results.failures) =
                       [contact |-> index, error |-> ErrorOf(Last(hist))]

\* a contact was recorded after MAX_RETRIES + 1 failed attempts whose first
\* and last errors differ
C2_Witness ==
    /\ pc = "progress"
    /\ AllFailed(hist)
    /\ Len(hist) = MAX_RETRIES + 1
    /\ hist[1] # Last(hist)

\* C3: a contact whose transport fails twice and then succeeds is recorded
\* as successful after exactly 3 transport calls: two failures do not end
\* its attempts, and nothing is sent for it after the success.
C3_FailTwiceThenSucceed ==
    /\ \A k \in 1..Len(hist) : hist[k] = 200 => k = Len(hist)
    /\ (pc \in {"record", "progress"} /\ Len(hist) <= 2) => Last(hist) = 200
    /\ (/\ pc = "progress"
        /\ Len(hist) >= 3
        /\ IsFailure(hist[1]) /\ IsFailure(hist[2]) /\ hist[3] = 200) =>
          /\ Len(hist) = 3
          /\ outcomes[index] = "Success"
          /\ results.successful = Cardinality(SucceededContacts)
          /\ index \notin ListedContacts

\* a contact was recorded after two failed attempts and a successful third
C3_Witness ==
    /\ pc = "progress"
    /\ Len(hist) = 3
    /\ IsFailure(hist[1]) /\ IsFailure(hist[2]) /\ hist[3] = 200
    /\ results.successful >= 1

\* C4: no more than RATE_LIMIT sends succeed in any interval shorter than
\* 60 seconds, wherever the interval starts.
C4_RollingWindow ==
    Len(sendTimes) = RATE_LIMIT + 1 =>
        sendTimes[RATE_LIMIT + 1] - sendTimes[1] >= WINDOW

\* a/b < c/d for fractions <<a, b>>, <<c, d>> with positive denominators
FracLess(x, y) == x[1] * y[2] < y[1] * x[2]

\* C5: with a callback, the callback has been invoked exactly once for each
\* contact whose outcome is final, whatever the outcome is, so n times when
\* send_bulk_messages returns.
C5_CallbackPerContact ==
    (hasCallback /\ pc \in {"loop", "done"}) =>
        /\ Len(progressLog) = Len(outcomes)
        /\ Len(progressLog) = index - 1

\* C6: the percentages handed to the callback are strictly increasing, and
\* for a non-empty contact list the last one delivered before
\* send_bulk_messages returns is exactly 100.
C6_ProgressReaches100 ==
    /\ \A k \in 1..(Len(progressLog) - 1) :
          FracLess(progressLog[k], progressLog[k + 1])
    /\ (pc = "done" /\ hasCallback /\ contacts # <<>>) =>
          /\ progressLog # <<>>
          /\ Last(progressLog)[1] = 100 * Last(progressLog)[2]

\* C7: a contact whose rendering raises for a missing field is counted as
\* failed with one entry in failures, and for it no transport call is
\* made, nothing is retried and the limiter is left as it was.
C7_RenderFailure ==
    [][(/\ pc = "loop"
        /\ index <= Len(contacts)
        /\ RenderError(template, contacts[index]) # NoError) =>
          (/\ results' = [results EXCEPT
                 !.failed = @ + 1,
                 !.failures = Append(@,
                     [contact |-> index,
                      error |-> RenderError(template, contacts[index])])]
           /\ hist' = <<>>
           /\ pc' = "loop"
           /\ index' = index + 1
           /\ UNCHANGED <<message_count, last_reset_time, sendTimes,
                          retry_count, clock>>)]_vars

\* a render failure was recorded while the limiter held a count
C7_Witness ==
    /\ pc = "loop"
    /\ index > 1
    /\ outcomes[index - 1] = "RenderFailed"
    /\ Last(results.failures).contact = index - 1
    /\ Last(results.failures).error.kind = "KeyError"
    /\ message_count > 0
    /\ hist = <<>>

\* C8: send_bulk_messages never aborts early: it returns only once every
\* contact was processed and got its outcome, whatever happened to the
\* contacts before.
C8_NeverAborts ==
    /\ pc = "done" =>
          /\ index = Len(contacts) + 1
          /\ Len(outcomes) = Len(contacts)
    /\ pc \in {"loop", "done"} => Len(outcomes) = index - 1

\* a run returned after a permanent failure, a render failure and a raising
\* callback, the last contact having been sent
C8_Witness ==
    /\ pc = "done"
    /\ Len(contacts) = 3
    /\ outcomes = <<"PermanentFailure", "RenderFailed", "Success">>
    /\ \E k \in 1..Len(results.failures) :
          /\ results.failures[k].contact = 1
          /\ results.failures[k].error.kind = "CallbackError"

\* C9: whenever the callback is invoked for contact i, the result it gets
\* has successful + failed = i + 1 and failures lists exactly the failed
\* contacts among the first i + 1.
C9_ConsistentSnapshot ==
    (pc = "progress" /\ hasCallback) =>
        /\ results.successful + results.failed = index
        /\ ListedContacts = FailedContacts
        /\ Len(results.failures) = Cardinality(FailedContacts)

\* C10: at every point failures is a subsequence of the input contacts in
\* input order, with one entry per failed contact, and as long as
\* results.failed.
C10_FailuresInOrder ==
    /\ \A j, k \in 1..Len(results.failures) :
          j < k => results.failures[j].contact < results.failures[k].contact
    /\ ListedContacts = FailedContacts
    /\ Len(results.failures) = results.failed


\* C11: for an empty contact list send_bulk_messages returns total = 0,
\* successful = 0, failed = 0, failures = [], without a transport call or
\* a rate-limit check and without invoking the callback.
C11_EmptyContacts ==
    (contacts = <<>> /\ pc # "idle") =>
        /\ pc \in {"loop", "done"}
        /\ results = [total |-> 0, successful |-> 0, failed |-> 0,
                      failures |-> <<>>]
        /\ progressLog = <<>>
        /\ hist = <<>>
        /\ sendTimes = <<>>
        /\ message_count = 0
        /\ clock = 0

\* send_bulk_messages returned for an empty list and a callback
C11_Witness ==
    /\ pc = "done"
    /\ contacts = <<>>
    /\ hasCallback


\* C12 as stated: within one window the check grants the first RATE_LIMIT
\* acquisitions and refuses the next one; a check made once 60 seconds have
\* passed since the window start zeroes the count, restarts the window at
\* the current time and returns True.
C12_GrantsCapped ==
    /\ grants <= RATE_LIMIT
    /\ (pc = "post" /\ last_reset_time = clock /\ clock >= WINDOW) =>
          message_count = 0

\* C12 amended: the check returns True exactly when fewer than RATE_LIMIT
\* sends have succeeded since the window start (for RATE_LIMIT = 2: True,
\* a successful send, True, a successful send, False), a granted check by
\* itself uses up nothing; a check made once 60 seconds have passed since
\* the window start zeroes the count, restarts the window at the current
\* time and returns True.
C12_CheckCountsSuccesses ==
    [][pc = "wait" =>
         IF clock - last_reset_time >= WINDOW
         THEN /\ message_count' = 0
              /\ last_reset_time' = clock
              /\ pc' = "post"
              /\ clock' = clock
         ELSE /\ message_count' = message_count
              /\ last_reset_time' = last_reset_time
              /\ (pc' = "post") = (message_count < RATE_LIMIT)
              /\ (pc' = "post") = (clock' = clock)
              /\ message_count <= RATE_LIMIT]_vars

\* RATE_LIMIT sends succeeded in the first window, the check then refused
\* until the window had elapsed, and has now reset the limiter and granted
C12_Witness ==
    /\ pc = "post"
    /\ clock >= WINDOW
    /\ last_reset_time = clock
    /\ message_count = 0
    /\ grants = 1
    /\ Len(sendTimes) = RATE_LIMIT
    /\ \A k \in 1..Len(sendTimes) : sendTimes[k] < WINDOW


\* C13: every transport invocation, first attempt or retry, is preceded by
\* a rate-limit check of its own that returned True after the previous
\* invocation: the request is reached only from a granted check, and each
\* request uses up the permission it was reached with.
C13_CheckBeforeEveryPost ==
    [][/\ pc' = "post" =>
             /\ pc = "wait"
             /\ hist' = hist
             /\ message_count' < RATE_LIMIT
             /\ grants' >= 1
       /\ pc = "post" =>
             /\ pc' # "post"
             /\ Len(hist') = Len(hist) + 1]_vars

\* a retry is about to be sent on a check made after the failed attempt
C13_Witness ==
    /\ pc = "post"
    /\ retry_count >= 1
    /\ Len(hist) = retry_count
    /\ grants = Len(hist) + 1


\* the outcomes that occur in h
Kinds(h) == {h[k] : k \in 1..Len(h)}

\* C14: the retry loop treats HTTP-status failures and network exceptions
\* alike: every failed attempt, of either kind, advances the one attempt
\* counter, so the number of transport calls for a contact depends on how
\* many attempts failed and not on what kind the failures were.
C14_FailureKindsAlike ==
    /\ pc \in {"wait", "post"} =>
          /\ retry_count = Len(hist)
          /\ \A k \in 1..Len(hist) : IsFailure(hist[k])
    /\ pc \in {"record", "progress"} =>
          /\ Len(hist) = retry_count + 1
          /\ IsFailure(Last(hist)) => Len(hist) = MAX_RETRIES + 1

\* a contact ran out of retries on failures of both kinds
C14_Witness ==
    /\ pc = "record"
    /\ AllFailed(hist)
    /\ Len(hist) = MAX_RETRIES + 1
    /\ NetErr \in Kinds(hist)
    /\ 500 \in Kinds(hist)


\* C15: with two send_bulk_messages calls interleaved on one WhatsAppAPI
\* object a state is reachable in which message_count exceeds RATE_LIMIT
\* within one limiter window (C15_Witness); as long as a single call runs
\* on the object this cannot happen.
C15_OnlyTwoCallsExceedCap ==
    message_count > RATE_LIMIT => (pc # "idle" /\ pc2 # "idle")

\* both calls passed the check before either had counted its send, and more
\* than RATE_LIMIT sends succeeded in the window that started at 0
C15_Witness ==
    /\ message_count > RATE_LIMIT
    /\ last_reset_time = 0
    /\ clock < WINDOW
    /\ results.successful >= 1
    /\ pc2 = "record" /\ resp2 = NoError


\* the number of characters of p for which str.isdigit() is True
DigitCount(p) == Cardinality({k \in 1..Len(p) : IsDigit(p[k])})

\* C16: validate_phone_number(p) is True if and only if p holds between 10
\* and 15 digit characters, whatever other characters it holds.
C16_ValidIffTenToFifteenDigits ==
    phoneCall.fn = "validate" =>
        (phoneCall.ret = TRUE) =
            (DigitCount(phoneCall.arg) >= 10 /\ DigitCount(phoneCall.arg) <= 15)

\* a number of exactly 10 digits with other characters among them was
\* found valid
C16_Witness ==
    /\ phoneCall.fn = "validate"
    /\ phoneCall.ret = TRUE
    /\ DigitCount(phoneCall.arg) = 10
    /\ Len(phoneCall.arg) > 10
    /\ phoneCall.arg[1] = "+"

PlusCount(p) == Cardinality({k \in 1..Len(p) : p[k] = "+"})

\* C17: format_phone_number(p) is "+" followed by exactly the digit
\* characters of p in their order, with a single "+" also when p starts
\* with "+", and formatting the result again changes nothing.
C17_PlusThenDigits ==
    phoneCall.fn = "format" =>
        /\ phoneCall.ret = <<"+">> \o SelectSeq(phoneCall.arg, IsDigit)
        /\ PlusCount(phoneCall.ret) = 1
        /\ Len(phoneCall.ret) = 1 + DigitCount(phoneCall.arg)
        /\ format_phone_number(phoneCall.ret) = phoneCall.ret

\* a number that starts with "+", holds another "+" and two different
\* digits was formatted
C17_Witness ==
    /\ phoneCall.fn = "format"
    /\ Len(phoneCall.arg) >= 4
    /\ phoneCall.arg[1] = "+"
    /\ phoneCall.arg[3] = "+"
    /\ phoneCall.arg[2] = "2"
    /\ phoneCall.arg[4] = "7"
    /\ phoneCall.ret[2] = "2"


\* the sends that succeeded since the limiter window started
SendsInWindow == {k \in 1..Len(sendTimes) : sendTimes[k] > last_reset_time}

\* C18 as stated: every granted acquisition is counted with the
\* acquisition, so the count is the number of attempts let through in the
\* window and at most RATE_LIMIT attempts, failed ones included, are made
\* in one window.
C18_AcquisitionCounts ==
    /\ grants = message_count
    /\ grants <= RATE_LIMIT

\* C18 amended: the count is incremented only once an attempt has
\* succeeded, after the request and not with the acquisition, so in one
\* limiter window at most RATE_LIMIT sends succeed; failed attempts are not
\* counted and the limiter does not cap them.
C18_SuccessesCounted ==
    /\ message_count = Cardinality(SendsInWindow)
    /\ message_count <= RATE_LIMIT
    /\ message_count <= grants
    /\ pc = "post" => message_count < grants

\* more than RATE_LIMIT attempts were let through in one window, one of
\* them a success
C18_Witness ==
    /\ grants > RATE_LIMIT
    /\ message_count = 1
    /\ pc = "post"
    /\ last_reset_time = 0

C20_CountedOnce ==
    /\ pc \in {"loop", "done"} =>
          results.successful + results.failed = index - 1
    /\ \A j, k \in 1..Len(results.failures) :
          j # k => results.failures[j].contact # results.failures[k].contact
    /\ Len(results.failures) <= Len(outcomes)


Terminal == {"Success", "RenderFailed", "PermanentFailure"}

\* where contact i stands in the per-contact state machine: Rendering is
\* the step from Pending, Sending spans the limiter wait, the request and
\* the retry delay
ContactState(i) ==
    IF i <= Len(outcomes) THEN outcomes[i]
    ELSE IF i = index /\ pc \in {"wait", "post", "record"} THEN "Sending"
    ELSE "Pending"

\* the transitions of the per-contact state machine
MachineStep(s, t) ==
    \/ s = t
    \/ s = "Pending" /\ t \in {"Sending", "RenderFailed"}
    \/ s = "Sending" /\ t \in {"Success", "PermanentFailure"}

\* C21: contacts are processed one at a time in input order: a contact has
\* left Pending only when every contact before it is in a terminal state,
\* at most one contact is being sent, every contact has reached one
\* terminal state when the call returns, each contact moves along
\* Pending -> (RenderFailed | Sending -> (Success | PermanentFailure)),
\* and a terminal state is never left.
C21_OneAtATime ==
    /\ [](/\ \A i \in 1..Len(contacts) :
               ContactState(i) # "Pending" =>
                   \A j \in 1..(i - 1) : ContactState(j) \in Terminal
          /\ Len(outcomes) \in {index - 1, index}
          /\ Len(outcomes) <= Len(contacts)
          /\ pc \in {"wait", "post", "record"} => Len(outcomes) = index - 1
          /\ pc = "done" => Len(outcomes) = Len(contacts))
    /\ [][pc # "idle" =>
            \A i \in 1..Len(contacts) :
                /\ MachineStep(ContactState(i), ContactState(i)')
                /\ ContactState(i) \in Terminal => ContactState(i)' = ContactState(i)
                /\ (pc' \in {"wait", "post"} /\ index' = i /\ <<pc, clock, hist>> # <<pc', clock', hist'>>) =>
                       ContactState(i)' = "Sending"]_vars

\* a call that took its three contacts to the three terminal states
C21_Witness ==
    /\ pc = "done"
    /\ Len(contacts) = 3
    /\ {outcomes[i] : i \in 1..Len(outcomes)} = Terminal


\* the limiter would refuse a check made now
Refusing ==
    /\ clock - last_reset_time < WINDOW
    /\ message_count >= RATE_LIMIT

\* contact index is rendered by this step (lines 164-168)
Rendered ==
    /\ pc = "loop"
    /\ pc' = "wait" \/ Len(outcomes') > Len(outcomes)

\* C22 as stated: the limiter is acquired before the template is rendered,
\* so no contact is rendered, and no render failure recorded, while the
\* limiter is refusing permission.
C22_AcquireBeforeRender == [][Rendered => ~Refusing]_vars

\* C22 amended: the template is rendered before the limiter is consulted:
\* rendering reads and changes nothing of the limiter and takes no time,
\* whether the limiter would refuse or not; the blocking acquisition is
\* entered only by a contact that rendered (or by a retry), and a render
\* failure is recorded without any acquisition.
C22_RenderBeforeAcquire ==
    /\ [](pc \in {"wait", "post"} =>
             RenderError(template, contacts[index]) = NoError)
    /\ [][/\ pc = "loop" => UNCHANGED <<clock, limiterVars, grants>>
          /\ Rendered =>
                /\ pc' = "wait" <=> RenderError(template, contacts[index]) = NoError
                /\ pc' # "wait" =>
                      /\ pc' = "loop"
                      /\ Last(outcomes') = "RenderFailed"
          /\ (pc' = "wait" /\ pc # "wait") => pc \in {"loop", "post"}
          /\ (pc' = "post" /\ pc # "post") => pc = "wait"]_vars

\* a render failure was recorded while the limiter was refusing
C22_Witness ==
    /\ pc = "loop"
    /\ outcomes # <<>>
    /\ Last(outcomes) = "RenderFailed"
    /\ Len(results.failures) = 1
    /\ Refusing


\* the clock of the model has run out for a sleep or a request
TimeUp == \E d \in Durations : clock + d + RETRY_DELAY > LiveTime

\* C23: a call of send_bulk_messages returns, whatever the contacts and
\* the transport outcomes (as far as the clock of the model lasts); a check
\* made once 60 seconds have passed since the window start is granted, so
\* a wait that polls ends no later than that; a contact gets at most
\* MAX_RETRIES + 1 transport attempts.
C23_Terminates ==
    /\ (pc # "idle") ~> (pc = "done" \/ TimeUp)
    /\ [](/\ Len(hist) <= MAX_RETRIES + 1
          /\ retry_count <= MAX_RETRIES
          /\ pc = "post" => Len(hist) = retry_count)
    /\ [][pc = "wait" =>
            /\ clock - last_reset_time >= WINDOW => pc' = "post"
            /\ pc' = "wait" =>
                  /\ clock' = clock + POLL_DELAY
                  /\ clock' - last_reset_time' <= WINDOW
            /\ pc' \in {"wait", "post"}]_vars

\* a call returned after its third contact had waited for the window to
\* elapse
C23_Witness ==
    /\ pc = "done"
    /\ sendTimes = <<1, 2, WINDOW + 1>>
    /\ results.successful = 3

\* with lists of at most MaxContacts contacts the clock never runs out
ClockLasts == ~TimeUp


\* C24: whatever the clicks on "Send Messages", at most one
\* SendMessagesWorker is inside send_bulk_messages on the window's
\* WhatsAppAPI object at any time.
C24_SingleInFlight == ~(Running(pc) /\ Running(pc2))

=============================================================================
